---- MODULE Spec2Model ----
(***************************************************************************)
(* A model of src/main.py: the two HTTP handlers /process-receipt and      *)
(* /process-ocr, the request validation they share, the blob-store upload, *)
(* the two calls to the analysis engine, and the flattening of the         *)
(* analysis responses into the JSON bodies the handlers return.            *)
(*                                                                         *)
(* A text is a sequence of characters.  A character is a one-character     *)
(* string, except "kra", which stands for U+0138, a lowercase letter that  *)
(* str.upper() leaves unchanged.                                           *)
(***************************************************************************)
EXTENDS Integers, Sequences, FiniteSets, TLC

(***************************************************************************)
(* Bounds of the model.                                                    *)
(***************************************************************************)
MaxPages == 2
MaxBlocks == 2
MaxSummary == 2
MaxItems == 3
MaxFields == 3

(***************************************************************************)
(* Python str methods, character by character.                             *)
(***************************************************************************)
\* str.upper() on one character
UpperChar(c) ==
  CASE c = "a" -> "A"
    [] c = "b" -> "B"
    [] OTHER -> c

\* str.lower() on one character
LowerChar(c) ==
  CASE c = "A" -> "a"
    [] c = "B" -> "b"
    [] OTHER -> c

\* str.isspace() on one character: what str.strip() removes
IsWhitespace(c) == c \in {" ", "\t"}

upper(s) == [i \in 1..Len(s) |-> UpperChar(s[i])]

lower(s) == [i \in 1..Len(s) |-> LowerChar(s[i])]

\* str.replace(" ", "_")
replace_space(s) == [i \in 1..Len(s) |-> IF s[i] = " " THEN "_" ELSE s[i]]

RECURSIVE lstrip(_)
lstrip(s) ==
  IF s = <<>> THEN <<>>
  ELSE IF IsWhitespace(Head(s)) THEN lstrip(Tail(s)) ELSE s

RECURSIVE rstrip(_)
rstrip(s) ==
  IF s = <<>> THEN <<>>
  ELSE IF IsWhitespace(s[Len(s)]) THEN rstrip(SubSeq(s, 1, Len(s) - 1)) ELSE s

\* str.strip()
strip(s) == rstrip(lstrip(s))

(***************************************************************************)
(* sniff_kind: the file type from the header bytes.  A header is named by  *)
(* the signature it carries.                                               *)
(***************************************************************************)
Headers ==
  {"%PDF-", "FFD8FF", "89PNG", "II*", "MM*", "ftypheic", "ftypheif",
   "ftypmif1", "other"}

NoKind == [kind |-> "None", ext |-> "None", content_type |-> "None"]

sniff_kind(h) ==
  CASE h = "%PDF-" ->
         [kind |-> "pdf", ext |-> ".pdf", content_type |-> "application/pdf"]
    [] h = "FFD8FF" ->
         [kind |-> "jpeg", ext |-> ".jpg", content_type |-> "image/jpeg"]
    [] h = "89PNG" ->
         [kind |-> "png", ext |-> ".png", content_type |-> "image/png"]
    [] h \in {"II*", "MM*"} ->
         [kind |-> "tiff", ext |-> ".tiff", content_type |-> "image/tiff"]
    [] h \in {"ftypheic", "ftypheif", "ftypmif1"} ->
         [kind |-> "heic", ext |-> ".heic", content_type |-> "image/heic"]
    [] OTHER -> NoKind

(***************************************************************************)
(* HTTP responses.                                                         *)
(***************************************************************************)
NoResponse == [status |-> 0, content |-> [none |-> TRUE]]

JSONResponse(status_code, content) ==
  [status |-> status_code, content |-> content]

ErrorContent(msg) == [error |-> msg]

(***************************************************************************)
(* Request bodies.  json: what request.json() does with the body           *)
(* ("invalid": it raises; "scalar": a number, a boolean or null, on which  *)
(* the test "file" not in body raises; "array": a list or a string, which  *)
(* the test accepts and body["file"] does not; "object").  has_file,       *)
(* has_filename: whether "file" / "filename" is in the value.  prefix:     *)
(* whether the file text starts with "data:" and whether it has a comma.   *)
(* b64: whether base64.b64decode accepts it.  header: the signature of the *)
(* decoded bytes.  raster: what fitz does with a PDF (ok: it does not      *)
(* raise; n: the number of pages it yields).                               *)
(***************************************************************************)
Rasters == {[ok |-> FALSE, n |-> 0]} \cup {[ok |-> TRUE, n |-> k] : k \in 0..MaxPages}

DefaultBody ==
  [json |-> "object", has_file |-> TRUE, has_filename |-> TRUE,
   prefix |-> "none", b64 |-> TRUE, header |-> "89PNG",
   raster |-> [ok |-> TRUE, n |-> 1]]

Bodies ==
  {[DefaultBody EXCEPT !.json = j] : j \in {"invalid", "scalar"}}
  \cup {[DefaultBody EXCEPT !.json = j, !.has_file = f, !.has_filename = g] :
          j \in {"array", "object"}, f \in BOOLEAN, g \in BOOLEAN}
  \cup {[DefaultBody EXCEPT !.prefix = p, !.b64 = b] :
          p \in {"none", "data_comma", "data_no_comma"}, b \in BOOLEAN}
  \cup {[DefaultBody EXCEPT !.header = h] : h \in Headers}
  \cup {[DefaultBody EXCEPT !.header = "%PDF-", !.raster = r] : r \in Rasters}

(***************************************************************************)
(* pdf_or_image_to_images.  The result is one of                           *)
(*   [tag |-> "raise"]            an exception leaves the function,        *)
(*   [tag |-> "error", error]     (None, JSONResponse),                    *)
(*   [tag |-> "pages", pages]     (pages, None).                           *)
(***************************************************************************)
Page(ext, content_type) == [ext |-> ext, content_type |-> content_type]

Raise == [tag |-> "raise", pages |-> <<>>, error |-> NoResponse]

ReturnError(status_code, msg) ==
  [tag |-> "error", pages |-> <<>>,
   error |-> JSONResponse(status_code, ErrorContent(msg))]

ReturnPages(pages) == [tag |-> "pages", pages |-> pages, error |-> NoResponse]

\* except Exception: return None, JSONResponse(400, "Invalid base64 string.")
invalid_base64_ignored == ReturnPages(<<Page(".png", "image/png")>>)
invalid_base64 == ReturnError(400, "Invalid base64 string.")

pdf_or_image_to_images(body) ==
  IF body.json \in {"invalid", "scalar"} THEN Raise
  ELSE IF ~body.has_file \/ ~body.has_filename THEN
    ReturnError(400, "Missing file or filename in request body.")
  ELSE IF body.json = "array" THEN Raise
  ELSE IF body.prefix = "data_no_comma" THEN Raise
  ELSE IF ~body.b64 THEN invalid_base64
  ELSE LET k == sniff_kind(body.header) IN
    IF k.kind = "None" THEN ReturnError(415, "Unsupported file type.")
    ELSE IF k.kind = "heic" THEN ReturnError(415, "HEIC not supported.")
    ELSE IF k.kind \in {"jpeg", "png", "tiff"} THEN
      ReturnPages(<<Page(k.ext, k.content_type)>>)
    ELSE IF ~body.raster.ok THEN ReturnError(400, "Could not flatten PDF.")
    ELSE ReturnPages([i \in 1..body.raster.n |-> Page(".png", "image/png")])

(***************************************************************************)
(* Python dicts: a dict is a function from its keys.                       *)
(***************************************************************************)
EmptyDict == [k \in {} |-> <<>>]

\* d[key] = value
SetItem(d, key, value) ==
  [k \in (DOMAIN d) \cup {key} |-> IF k = key THEN value ELSE d[k]]

(***************************************************************************)
(* The expense response of textract.analyze_expense.  A field is           *)
(* {"Type": c, "ValueDetection": c}; each c is absent (the key is not in   *)
(* the field), a container without "Text", or a container with a text.     *)
(***************************************************************************)
Absent == [k |-> "absent", t |-> <<>>]

NoText == [k |-> "notext", t |-> <<>>]

WithText(s) == [k |-> "text", t |-> s]

ExpenseField(type, value) == [Type |-> type, ValueDetection |-> value]

\* "Type" in field and "ValueDetection" in field
HasTypeAndValue(field) ==
  field.Type.k # "absent" /\ field.ValueDetection.k # "absent"

\* field["Type"]["Text"] or field["ValueDetection"]["Text"] raises KeyError
TextLookupRaises(field) ==
  field.Type.k = "notext" \/ field.ValueDetection.k = "notext"

\* field["Type"]["Text"].strip().upper().replace(" ", "_")
summary_name_unstripped(text) == replace_space(upper(text))
summary_name(text) == replace_space(upper(strip(text)))

\* field["ValueDetection"]["Text"].strip()
summary_value(text) == strip(text)

\* One pass of the loop over doc.get("SummaryFields", []).
\* acc is [raised, raw_fields, line_items].
summary_step(acc, field) ==
  IF acc.raised \/ ~HasTypeAndValue(field) THEN acc
  ELSE IF TextLookupRaises(field) THEN [acc EXCEPT !.raised = TRUE]
  ELSE LET name == summary_name(field.Type.t)
           value == summary_value(field.ValueDetection.t)
       IN  IF name # <<>> /\ value # <<>>
           THEN [acc EXCEPT !.raw_fields = SetItem(@, name, value)]
           ELSE acc

RECURSIVE summary_loop(_, _)
summary_loop(acc, fields) ==
  IF fields = <<>> THEN acc
  ELSE summary_loop(summary_step(acc, Head(fields)), Tail(fields))

\* One field of the dict comprehension over item.get("LineItemExpenseFields", []).
\* acc is [raised, fields].
item_field_step_stripped(acc, f) ==
  IF acc.raised \/ ~HasTypeAndValue(f) THEN acc
  ELSE IF TextLookupRaises(f) THEN [acc EXCEPT !.raised = TRUE]
  ELSE [acc EXCEPT !.fields = SetItem(@, lower(f.Type.t), strip(f.ValueDetection.t))]
item_field_step(acc, f) ==
  IF acc.raised \/ ~HasTypeAndValue(f) THEN acc
  ELSE IF TextLookupRaises(f) THEN [acc EXCEPT !.raised = TRUE]
  ELSE [acc EXCEPT !.fields = SetItem(@, lower(f.Type.t), f.ValueDetection.t)]

RECURSIVE item_fields(_, _)
item_fields(acc, fs) ==
  IF fs = <<>> THEN acc
  ELSE item_fields(item_field_step(acc, Head(fs)), Tail(fs))

\* One pass of the loop over group.get("LineItems", []).
item_step_keep_empty(acc, item) ==
  IF acc.raised THEN acc
  ELSE LET r == item_fields([raised |-> FALSE, fields |-> EmptyDict],
                            item.LineItemExpenseFields)
       IN  IF r.raised THEN [acc EXCEPT !.raised = TRUE]
           ELSE [acc EXCEPT !.line_items = Append(@, r.fields)]
item_step_prepend(acc, item) ==
  IF acc.raised THEN acc
  ELSE LET r == item_fields([raised |-> FALSE, fields |-> EmptyDict],
                            item.LineItemExpenseFields)
       IN  IF r.raised THEN [acc EXCEPT !.raised = TRUE]
           ELSE IF r.fields # EmptyDict
                THEN [acc EXCEPT !.line_items = <<r.fields>> \o @]
                ELSE acc
item_step(acc, item) ==
  IF acc.raised THEN acc
  ELSE LET r == item_fields([raised |-> FALSE, fields |-> EmptyDict],
                            item.LineItemExpenseFields)
       IN  IF r.raised THEN [acc EXCEPT !.raised = TRUE]
           ELSE IF r.fields # EmptyDict
                THEN [acc EXCEPT !.line_items = Append(@, r.fields)]
                ELSE acc

RECURSIVE item_loop(_, _)
item_loop(acc, items) ==
  IF items = <<>> THEN acc
  ELSE item_loop(item_step(acc, Head(items)), Tail(items))

\* The loop over doc.get("LineItemGroups", []).
RECURSIVE group_loop(_, _)
group_loop(acc, groups) ==
  IF groups = <<>> THEN acc
  ELSE group_loop(item_loop(acc, Head(groups).LineItems), Tail(groups))

\* The loop over response.get("ExpenseDocuments", []).
RECURSIVE doc_loop(_, _)
doc_loop(acc, docs) ==
  IF docs = <<>> THEN acc
  ELSE doc_loop(group_loop(summary_loop(acc, Head(docs).SummaryFields),
                           Head(docs).LineItemGroups),
                Tail(docs))

\* raw_fields = {}; line_items = []; the loops of process_receipt
flatten_expense(response) ==
  doc_loop([raised |-> FALSE, raw_fields |-> EmptyDict, line_items |-> <<>>],
           response.ExpenseDocuments)

\* The content of the 200 response of process_receipt.
receipt_content(acc) ==
  [raw_fields |-> acc.raw_fields, line_items |-> acc.line_items]

(***************************************************************************)
(* The response of textract.detect_document_text: a block is               *)
(* {"BlockType": b, "Text": t}, each key possibly absent.                  *)
(***************************************************************************)
Block(type, text) == [BlockType |-> type, Text |-> text]

\* block.get("Text", "")
block_text(block) == IF block.Text.k = "text" THEN block.Text.t ELSE <<>>

\* One pass of the loop over response.get("Blocks", []).
block_step_text_only(lines, block) ==
  IF block.BlockType = "LINE" /\ block.Text.k = "text"
  THEN Append(lines, block_text(block)) ELSE lines
block_step(lines, block) ==
  IF block.BlockType = "LINE" THEN Append(lines, block_text(block)) ELSE lines

RECURSIVE block_loop(_, _)
block_loop(lines, blocks) ==
  IF blocks = <<>> THEN lines
  ELSE block_loop(block_step(lines, Head(blocks)), Tail(blocks))

(***************************************************************************)
(* The responses the handlers return at their except clauses.              *)
(***************************************************************************)
\* except Exception: return JSONResponse(500, "S3 upload failed.")
upload_failed == JSONResponse(500, ErrorContent("S3 upload failed."))

\* except Exception: return JSONResponse(400, "AnalyzeExpense failed.")
analyze_expense_failed_empty_200 ==
  JSONResponse(200, [raw_fields |-> EmptyDict, line_items |-> <<>>])
analyze_expense_failed == JSONResponse(400, ErrorContent("AnalyzeExpense failed."))

\* except Exception: return JSONResponse(400, "Textract OCR failed.")
detect_text_failed == JSONResponse(400, ErrorContent("Textract OCR failed."))

\* The outermost except Exception of both handlers: what the client gets
\* when an exception reaches it.
outer_except_reraise == [response |-> NoResponse, escaped |-> TRUE]
outer_except ==
  [response |-> JSONResponse(500, ErrorContent("Internal server error.")),
   escaped |-> FALSE]

(***************************************************************************)
(* upload_to_s3: the key is base_name-uuid4-ext.                           *)
(***************************************************************************)
upload_to_s3(base_name, uuid, ext) == [base |-> base_name, uuid |-> uuid, ext |-> ext]

receipt_base_name == <<"receipt">>

ocr_base_name(page_index) == <<"ocr-page-", page_index>>

(***************************************************************************)
(* The state.                                                              *)
(*   pc          where the handler of the request in progress stands       *)
(*   endpoint    the route of the request                                  *)
(*   body        the request body                                          *)
(*   pages       the pages pdf_or_image_to_images returned                 *)
(*   page_index  the index of the page the handler works on                *)
(*   filename    the key the last upload returned                          *)
(*   all_lines   the lines process_ocr has collected                       *)
(*   store       the keys of the objects in the bucket                     *)
(*   next_uuid   the uuid the next upload draws                            *)
(*   calls       the calls made to the blob store and the analysis engine  *)
(*               for this request, in order, each with its outcome         *)
(*   response    the response returned to the client                       *)
(*   escaped     an exception left the handler                             *)
(***************************************************************************)
VARIABLES pc, endpoint, body, pages, page_index, filename, all_lines, store,
          next_uuid, calls, response, escaped

vars == <<pc, endpoint, body, pages, page_index, filename, all_lines, store,
          next_uuid, calls, response, escaped>>

NoKey == [base |-> <<>>, uuid |-> 0, ext |-> "None"]

Call(op, page, key, ok, result) ==
  [op |-> op, page |-> page, key |-> key, ok |-> ok, result |-> result]

Init ==
  /\ pc = "idle"
  /\ endpoint = "none"
  /\ body = DefaultBody
  /\ pages = <<>>
  /\ page_index = 0
  /\ filename = NoKey
  /\ all_lines = <<>>
  /\ store = {}
  /\ next_uuid = 1
  /\ calls = <<>>
  /\ response = NoResponse
  /\ escaped = FALSE

\* return a response: the handler is over
Return(r) ==
  /\ pc' = "done"
  /\ response' = r
  /\ escaped' = FALSE

\* an exception reaches the outermost except clause
Except ==
  /\ pc' = "done"
  /\ response' = outer_except.response
  /\ escaped' = outer_except.escaped

\* The loop header of process_ocr and what follows the loop.
OcrLoop(lines, index, pgs) ==
  /\ all_lines' = lines
  /\ page_index' = index
  /\ IF index < Len(pgs)
     THEN pc' = "upload" /\ UNCHANGED <<response, escaped>>
     ELSE Return(JSONResponse(200, [text_lines |-> lines]))

\* A request arrives; the handler awaits pdf_or_image_to_images(request).
Receive(Endpoints, Inputs) ==
  /\ pc = "idle"
  /\ \E e \in Endpoints, b \in Inputs :
       LET r == pdf_or_image_to_images(b) IN
       /\ endpoint' = e
       /\ body' = b
       /\ pages' = r.pages
       /\ UNCHANGED <<filename, store, next_uuid, calls>>
       /\ CASE r.tag = "raise" -> Except /\ UNCHANGED <<page_index, all_lines>>
            [] r.tag = "error" -> Return(r.error) /\ UNCHANGED <<page_index, all_lines>>
            [] r.tag = "pages" /\ e = "receipt" ->
                 \* first_page = pages[0]
                 /\ UNCHANGED <<page_index, all_lines>>
                 /\ IF r.pages = <<>> THEN Except
                    ELSE pc' = "upload" /\ UNCHANGED <<response, escaped>>
            [] r.tag = "pages" /\ e = "ocr" -> OcrLoop(<<>>, 0, r.pages)

\* process_receipt: upload_to_s3(first_page ...)
ReceiptUpload ==
  /\ pc = "upload" /\ endpoint = "receipt"
  /\ LET key == upload_to_s3(receipt_base_name, next_uuid, pages[1].ext) IN
     \/ /\ store' = store \cup {key}
        /\ filename' = key
        /\ next_uuid' = next_uuid + 1
        /\ calls' = Append(calls, Call("upload", 0, key, TRUE, <<>>))
        /\ pc' = "analyze"
        /\ UNCHANGED <<response, escaped>>
     \/ /\ calls' = Append(calls, Call("upload", 0, key, FALSE, <<>>))
        /\ Return(upload_failed)
        /\ UNCHANGED <<store, filename, next_uuid>>
  /\ UNCHANGED <<endpoint, body, pages, page_index, all_lines>>

\* process_receipt: textract.analyze_expense(...), the flattening, the return
ReceiptAnalyze(Responses) ==
  /\ pc = "analyze" /\ endpoint = "receipt"
  /\ \/ \E r \in Responses :
          LET acc == flatten_expense(r) IN
          /\ calls' = Append(calls, Call("analyze", 0, filename, TRUE, r))
          /\ IF acc.raised THEN Except
             ELSE Return(JSONResponse(200, receipt_content(acc)))
     \/ /\ calls' = Append(calls, Call("analyze", 0, filename, FALSE, <<>>))
        /\ Return(analyze_expense_failed)
  /\ UNCHANGED <<endpoint, body, pages, page_index, filename, all_lines, store,
                 next_uuid>>

\* process_ocr: upload_to_s3(page_data ...)
OcrUpload ==
  /\ pc = "upload" /\ endpoint = "ocr"
  /\ LET key == upload_to_s3(ocr_base_name(page_index), next_uuid,
                             pages[page_index + 1].ext) IN
     \/ /\ store' = store \cup {key}
        /\ filename' = key
        /\ next_uuid' = next_uuid + 1
        /\ calls' = Append(calls, Call("upload", page_index, key, TRUE, <<>>))
        /\ pc' = "analyze"
        /\ UNCHANGED <<response, escaped>>
     \/ /\ calls' = Append(calls, Call("upload", page_index, key, FALSE, <<>>))
        /\ Return(upload_failed)
        /\ UNCHANGED <<store, filename, next_uuid>>
  /\ UNCHANGED <<endpoint, body, pages, page_index, all_lines>>

\* process_ocr: textract.detect_document_text(...), the loop over the blocks,
\* the next pass of the loop over the pages or the return
OcrAnalyze(Responses) ==
  /\ pc = "analyze" /\ endpoint = "ocr"
  /\ \/ \E r \in Responses :
          /\ calls' = Append(calls, Call("analyze", page_index, filename, TRUE, r))
          /\ IF r.null
             THEN Except /\ UNCHANGED <<all_lines, page_index>>
             ELSE OcrLoop(block_loop(all_lines, r.Blocks), page_index + 1, pages)
     \/ /\ calls' = Append(calls, Call("analyze", page_index, filename, FALSE, <<>>))
        /\ Return(detect_text_failed)
        /\ UNCHANGED <<all_lines, page_index>>
  /\ UNCHANGED <<endpoint, body, pages, filename, store, next_uuid>>

(***************************************************************************)
(* The inputs: what the analysis engine may answer.                        *)
(***************************************************************************)
SeqsUpTo(S, n) == UNION {[1..k -> S] : k \in 0..n}

Doc(summary, groups) == [SummaryFields |-> summary, LineItemGroups |-> groups]

Group(items) == [LineItems |-> items]

LineItem(fields) == [LineItemExpenseFields |-> fields]

ExpenseResponse(docs) == [ExpenseDocuments |-> docs]

\* Summary fields: labels and values with surrounding and inner spaces, in
\* both cases, and the four ways a field can lack a label or a value.
SummaryLabels ==
  {<<"a">>, <<"A">>, <<" ", "a">>, <<"a", " ", "b">>, <<" ">>, <<"kra">>}

SummaryValues == {<<"x">>, <<" ", "y">>, <<" ">>}

MalformedFields ==
  {ExpenseField(Absent, WithText(<<"x">>)), ExpenseField(WithText(<<"a">>), Absent),
   ExpenseField(NoText, WithText(<<"x">>)), ExpenseField(WithText(<<"a">>), NoText)}

SummaryFieldUniverse ==
  {ExpenseField(WithText(l), WithText(v)) : l \in SummaryLabels, v \in SummaryValues}
  \cup MalformedFields

\* The documents that hold the summary fields fs and no line item: field i
\* opens a new document when new_doc[i], else it goes to the last document.
RECURSIVE SummaryDocs(_, _, _)
SummaryDocs(fs, new_doc, docs) ==
  IF fs = <<>> THEN docs
  ELSE SummaryDocs(Tail(fs), Tail(new_doc),
         IF Head(new_doc) \/ docs = <<>>
         THEN Append(docs, Doc(<<Head(fs)>>, <<>>))
         ELSE [docs EXCEPT ![Len(docs)].SummaryFields = Append(@, Head(fs))])

\* The expense responses with n summary fields.
SummaryResponses(n) ==
  {ExpenseResponse(SummaryDocs(fs, new_doc, <<>>)) :
     fs \in [1..n -> SummaryFieldUniverse],
     new_doc \in {m \in [1..n -> BOOLEAN] : n = 0 \/ m[1]}}

\* Line-item fields: two labels that differ in case only, a field without
\* label, one without value, one whose label has no text.
LineItemFieldUniverse ==
  {ExpenseField(WithText(<<"a">>), WithText(<<"x">>)),
   ExpenseField(WithText(<<"A">>), WithText(<<" ", "y">>)),
   ExpenseField(Absent, WithText(<<"x">>)),
   ExpenseField(WithText(<<"a">>), Absent),
   ExpenseField(NoText, WithText(<<"x">>))}

\* The line items of at most n fields.
LineItemUniverse(n) == {LineItem(fs) : fs \in SeqsUpTo(LineItemFieldUniverse, n)}

\* The line items of at most one field, and one with the same label twice.
FewLineItems ==
  LineItemUniverse(1)
  \cup {LineItem(<<ExpenseField(WithText(<<"a">>), WithText(<<"x">>)),
                   ExpenseField(WithText(<<"A">>), WithText(<<" ", "y">>))>>)}

\* The documents that hold the line items its and no summary field: item i
\* goes to the last group, to a new group of the last document, or to a new
\* document, as place[i] says.
RECURSIVE LineItemDocs(_, _, _)
LineItemDocs(its, place, docs) ==
  IF its = <<>> THEN docs
  ELSE LineItemDocs(Tail(its), Tail(place),
         IF Head(place) = "doc" \/ docs = <<>>
         THEN Append(docs, Doc(<<>>, <<Group(<<Head(its)>>)>>))
         ELSE IF Head(place) = "group"
         THEN [docs EXCEPT ![Len(docs)].LineItemGroups = Append(@, Group(<<Head(its)>>))]
         ELSE [docs EXCEPT
                 ![Len(docs)].LineItemGroups[Len(docs[Len(docs)].LineItemGroups)].LineItems
                    = Append(@, Head(its))])

\* The expense responses with n line items.
LineItemResponses(n) ==
  {ExpenseResponse(LineItemDocs(its, place, <<>>)) :
     its \in [1..n -> FewLineItems],
     place \in {m \in [1..n -> {"item", "group", "doc"}] : n = 0 \/ m[1] = "doc"}}

\* The expense responses with one line item of at most n fields.
SingleItemResponses(n) ==
  {ExpenseResponse(<<Doc(<<>>, <<Group(<<it>>)>>)>>) : it \in LineItemUniverse(n)}

\* The expense responses with one summary field and one line item.
MixedResponses ==
  {ExpenseResponse(<<Doc(<<f>>, <<Group(<<it>>)>>)>>) :
     f \in SummaryFieldUniverse, it \in FewLineItems}

\* Three answers for the runs that are about the pipeline, not the flattening.
FewExpenseResponses ==
  {ExpenseResponse(<<>>),
   ExpenseResponse(<<Doc(<<ExpenseField(WithText(<<"a">>), WithText(<<"x">>))>>,
                         <<Group(<<LineItem(<<ExpenseField(WithText(<<"a">>),
                                                            WithText(<<"x">>))>>)>>)>>)>>),
   ExpenseResponse(<<Doc(<<ExpenseField(NoText, WithText(<<"x">>))>>, <<>>)>>)}

BlockUniverse ==
  {Block("LINE", WithText(<<"a">>)), Block("LINE", Absent),
   Block("WORD", WithText(<<"b">>))}

\* null: "Blocks" is there and is not a list, so that the loop over it raises.
OcrResponses ==
  {[Blocks |-> bs, null |-> FALSE] : bs \in SeqsUpTo(BlockUniverse, MaxBlocks)}
  \cup {[Blocks |-> <<>>, null |-> TRUE]}

(***************************************************************************)
(* The specifications.  Spec: both endpoints, every request body, every    *)
(* outcome of the uploads and of the analysis calls.  SpecExpense:         *)
(* /process-receipt on a PNG, with every expense response of the bounds:   *)
(* up to MaxSummary summary fields, or up to MaxItems line items of at     *)
(* most one field, or one line item of up to MaxFields fields, or one      *)
(* summary field and one line item.                                        *)
(***************************************************************************)
Next ==
  \/ Receive({"receipt", "ocr"}, Bodies)
  \/ ReceiptUpload
  \/ ReceiptAnalyze(FewExpenseResponses)
  \/ OcrUpload
  \/ OcrAnalyze(OcrResponses)

Spec == Init /\ [][Next]_vars

NextExpense ==
  \/ Receive({"receipt"}, {DefaultBody})
  \/ ReceiptUpload
  \/ \E n \in 0..MaxSummary : ReceiptAnalyze(SummaryResponses(n))
  \/ \E n \in 0..MaxItems : ReceiptAnalyze(LineItemResponses(n))
  \/ ReceiptAnalyze(SingleItemResponses(MaxFields))
  \/ ReceiptAnalyze(MixedResponses)

SpecExpense == Init /\ [][NextExpense]_vars

(***************************************************************************)
(* What the properties speak of.                                           *)
(***************************************************************************)
Max(S) == CHOOSE x \in S : \A y \in S : y <= x

Min(S) == CHOOSE x \in S : \A y \in S : x <= y

LastCall == calls[Len(calls)]

\* /process-receipt has returned 200
ReceiptEmitted == pc = "done" /\ endpoint = "receipt" /\ response.status = 200

\* the documents of the expense response the handler flattened
AnalysedDocs == LastCall.result.ExpenseDocuments

\* <<d, g, i>>: item i of group g of document d
ItemPositions(docs) ==
  UNION {UNION {{<<d, g, i>> :
                   i \in 1..Len(docs[d].LineItemGroups[g].LineItems)} :
                g \in 1..Len(docs[d].LineItemGroups)} :
         d \in 1..Len(docs)}

ItemAt(docs, p) == docs[p[1]].LineItemGroups[p[2]].LineItems[p[3]]

\* input order of the items
Before(p, q) ==
  \/ p[1] < q[1]
  \/ p[1] = q[1] /\ p[2] < q[2]
  \/ p[1] = q[1] /\ p[2] = q[2] /\ p[3] < q[3]

\* the fields of an item that have both a label and a value
Retained(item) ==
  {j \in 1..Len(item.LineItemExpenseFields) :
     /\ item.LineItemExpenseFields[j].Type.k # "absent"
     /\ item.LineItemExpenseFields[j].ValueDetection.k # "absent"}

\* the items with at least one retained field
Kept(docs) == {p \in ItemPositions(docs) : Retained(ItemAt(docs, p)) # {}}

\* the place of a kept item among the kept items, in input order
Rank(docs, p) == 1 + Cardinality({q \in Kept(docs) : Before(q, p)})

LabelOf(item, j) == item.LineItemExpenseFields[j].Type.t

ValueOf(item, j) == item.LineItemExpenseFields[j].ValueDetection.t

Lowercased(s) == [i \in 1..Len(s) |-> LowerChar(s[i])]

\* the mapping of an item: the lowercased labels of its retained fields, each
\* with the value of the last retained field that has this lowercased label
ExpectedMapping(item) ==
  [key \in {Lowercased(LabelOf(item, j)) : j \in Retained(item)} |->
     ValueOf(item, Max({j \in Retained(item) : Lowercased(LabelOf(item, j)) = key}))]

\* C1 (as amended): in a 200 response of /process-receipt, the emitted
\* mappings are those of the line items with a retained field: the keys of
\* a mapping are the lowercased labels of the item's fields that have both a
\* label and a value, and each key has the value text, unchanged, of the
\* last such field with that lowercased label; a field without label or
\* without value adds no entry.
C1_LineItemEntries ==
  ReceiptEmitted =>
    LET out == response.content.line_items
        docs == AnalysedDocs
    IN  /\ \A k \in 1..Len(out) :
             \E p \in Kept(docs) : out[k] = ExpectedMapping(ItemAt(docs, p))
        /\ \A p \in Kept(docs) :
             \E k \in 1..Len(out) : out[k] = ExpectedMapping(ItemAt(docs, p))

\* C1 as stated: one entry per field that has both a label and a value.
C1_OneEntryPerField ==
  ReceiptEmitted =>
    LET out == response.content.line_items
        docs == AnalysedDocs
    IN  \A p \in Kept(docs) :
          /\ Rank(docs, p) \in 1..Len(out)
          /\ Cardinality(DOMAIN out[Rank(docs, p)])
               = Cardinality(Retained(ItemAt(docs, p)))
          /\ \A j \in Retained(ItemAt(docs, p)) :
               /\ Lowercased(LabelOf(ItemAt(docs, p), j)) \in DOMAIN out[Rank(docs, p)]
               /\ out[Rank(docs, p)][Lowercased(LabelOf(ItemAt(docs, p), j))]
                    = ValueOf(ItemAt(docs, p), j)

\* A 200 response for an item of three fields: two whose labels differ in
\* case only, with different values, and one without label or without value.
C1_Witness ==
  /\ ReceiptEmitted
  /\ \E p \in ItemPositions(AnalysedDocs) :
       LET item == ItemAt(AnalysedDocs, p) IN
       /\ Len(item.LineItemExpenseFields) = 3
       /\ Cardinality(Retained(item)) = 2
       /\ \E i \in Retained(item), j \in Retained(item) :
            /\ LabelOf(item, i) # LabelOf(item, j)
            /\ Lowercased(LabelOf(item, i)) = Lowercased(LabelOf(item, j))
            /\ ValueOf(item, i) # ValueOf(item, j)
       /\ Len(response.content.line_items) = 1
       /\ Cardinality(DOMAIN response.content.line_items[1]) = 1

\* C2: in a 200 response of /process-receipt, line_items lists the line items
\* with a retained field in input order, the groups and the documents
\* flattened in their order: the k-th emitted mapping is the mapping of the
\* k-th such item, and nothing else is emitted.
C2_LineItemOrder ==
  ReceiptEmitted =>
    LET out == response.content.line_items
        docs == AnalysedDocs
    IN  /\ Len(out) = Cardinality(Kept(docs))
        /\ \A p \in Kept(docs) :
             /\ Rank(docs, p) \in 1..Len(out)
             /\ out[Rank(docs, p)] = ExpectedMapping(ItemAt(docs, p))

\* A 200 response for three kept items with different mappings, in two
\* documents, the first of two groups.
C2_Witness ==
  /\ ReceiptEmitted
  /\ Len(AnalysedDocs) = 2
  /\ Len(AnalysedDocs[1].LineItemGroups) = 2
  /\ Len(response.content.line_items) = 3
  /\ response.content.line_items[1] # response.content.line_items[2]
  /\ response.content.line_items[2] # response.content.line_items[3]
  /\ Cardinality(Kept(AnalysedDocs)) = Cardinality(ItemPositions(AnalysedDocs))

\* C3: in a 200 response of /process-receipt no element of line_items is an
\* empty mapping, and line_items has as many elements as the response has
\* line items with at least one retained field.
C3_NoEmptyLineItem ==
  ReceiptEmitted =>
    LET out == response.content.line_items IN
    /\ \A k \in 1..Len(out) : DOMAIN out[k] # {}
    /\ Len(out) = Cardinality(Kept(AnalysedDocs))

\* A 200 response for an item that retains no field next to one that does.
C3_Witness ==
  /\ ReceiptEmitted
  /\ Kept(AnalysedDocs) # {}
  /\ \E p \in ItemPositions(AnalysedDocs) \ Kept(AnalysedDocs) :
       ItemAt(AnalysedDocs, p).LineItemExpenseFields # <<>>

(***************************************************************************)
(* Summary fields.                                                         *)
(***************************************************************************)
\* <<d, j>>: summary field j of document d
SummaryPositions(docs) ==
  UNION {{<<d, j>> : j \in 1..Len(docs[d].SummaryFields)} : d \in 1..Len(docs)}

SummaryAt(docs, p) == docs[p[1]].SummaryFields[p[2]]

\* input order of the summary fields
Earlier(p, q) == p[1] < q[1] \/ (p[1] = q[1] /\ p[2] < q[2])

HasTexts(field) == field.Type.k = "text" /\ field.ValueDetection.k = "text"

\* a lowercase letter (str.islower() on one character)
IsLowerChar(c) == c \in {"a", "b", "kra"}

\* s without the whitespace at its ends
Trimmed(s) ==
  LET inner == {i \in 1..Len(s) : ~IsWhitespace(s[i])} IN
  IF inner = {} THEN <<>> ELSE SubSeq(s, Min(inner), Max(inner))

\* uppercase, space to underscore
Normalized(s) ==
  [i \in 1..Len(s) |-> IF s[i] = " " THEN "_" ELSE UpperChar(s[i])]

\* the summary fields that have an entry in raw_fields
Contributing(docs) ==
  {p \in SummaryPositions(docs) :
     /\ HasTexts(SummaryAt(docs, p))
     /\ Trimmed(SummaryAt(docs, p).Type.t) # <<>>
     /\ Trimmed(SummaryAt(docs, p).ValueDetection.t) # <<>>}

KeyOf(docs, p) == Normalized(Trimmed(SummaryAt(docs, p).Type.t))

\* the last contributing field with this key
LastWithKey(docs, key) ==
  CHOOSE p \in Contributing(docs) :
    /\ KeyOf(docs, p) = key
    /\ \A q \in Contributing(docs) : KeyOf(docs, q) = key => ~Earlier(p, q)

\* C4 (as amended): in a 200 response of /process-receipt, the keys of
\* raw_fields are the labels of the summary fields, stripped of the
\* whitespace at their ends, uppercased, every space replaced by an
\* underscore; so no key holds a space or a letter that has an uppercase
\* form. Every summary field whose stripped label and stripped value are not
\* empty has its key in raw_fields, and the value of a key is the stripped
\* value of the last such field with this key.
C4_RawFieldKeys ==
  ReceiptEmitted =>
    LET raw == response.content.raw_fields
        docs == AnalysedDocs
    IN  /\ DOMAIN raw = {KeyOf(docs, p) : p \in Contributing(docs)}
        /\ \A key \in DOMAIN raw :
             /\ raw[key] = Trimmed(SummaryAt(docs, LastWithKey(docs, key)).ValueDetection.t)
             /\ \A i \in 1..Len(key) : key[i] # " " /\ UpperChar(key[i]) = key[i]

\* C4 as stated: the keys are the labels uppercased, every space replaced
\* by an underscore; no key holds a lowercase letter or a space; every
\* summary field with a non-empty label and a non-empty value has its key
\* in raw_fields.
C4_KeysAsStated ==
  ReceiptEmitted =>
    LET raw == response.content.raw_fields
        docs == AnalysedDocs
    IN  /\ \A key \in DOMAIN raw :
             /\ \E p \in SummaryPositions(docs) :
                  HasTexts(SummaryAt(docs, p)) /\ key = Normalized(SummaryAt(docs, p).Type.t)
             /\ \A i \in 1..Len(key) : key[i] # " " /\ ~IsLowerChar(key[i])
        /\ \A p \in SummaryPositions(docs) :
             (/\ HasTexts(SummaryAt(docs, p))
              /\ SummaryAt(docs, p).Type.t # <<>>
              /\ SummaryAt(docs, p).ValueDetection.t # <<>>)
             => Normalized(SummaryAt(docs, p).Type.t) \in DOMAIN raw

\* A 200 response for two summary fields of two documents, whose labels
\* differ in the space at their start and in case, with different values.
C4_Witness ==
  /\ ReceiptEmitted
  /\ Len(AnalysedDocs) = 2
  /\ \E p \in Contributing(AnalysedDocs), q \in Contributing(AnalysedDocs) :
       /\ Earlier(p, q)
       /\ SummaryAt(AnalysedDocs, p).Type.t = <<" ", "a">>
       /\ SummaryAt(AnalysedDocs, q).Type.t = <<"A">>
       /\ SummaryAt(AnalysedDocs, p).ValueDetection.t = <<"x">>
       /\ SummaryAt(AnalysedDocs, q).ValueDetection.t = <<" ", "y">>
  /\ response.content.raw_fields = [key \in {<<"A">>} |-> <<"y">>]

(***************************************************************************)
(* The pipeline.                                                           *)
(***************************************************************************)
CanonicalFields ==
  {"vendor_name", "total_amount", "subtotal_amount", "vat_amount",
   "vat_rate_percent", "currency", "invoice_date", "vat_number"}

\* C5: a 200 response of /process-receipt carries the eight canonical fields
\* and raw_fields.
C5_CanonicalFieldsPresent ==
  ReceiptEmitted =>
    CanonicalFields \cup {"raw_fields"} \subseteq DOMAIN response.content

\* a field with both containers, one of them without text
LacksText(field) ==
  /\ field.Type.k # "absent" /\ field.ValueDetection.k # "absent"
  /\ ~HasTexts(field)

\* the line items all of whose retained fields have their texts
WellFormedItems(docs) ==
  {p \in Kept(docs) :
     \A j \in Retained(ItemAt(docs, p)) :
       HasTexts(ItemAt(docs, p).LineItemExpenseFields[j])}

\* C7: whatever the shape of the expense response, /process-receipt returns
\* 200 with every well-formed summary field and line item of the response;
\* a field whose label or value carries no text is left out.
C7_PartialOutput ==
  (/\ pc = "done" /\ endpoint = "receipt"
   /\ calls # <<>> /\ LastCall.op = "analyze" /\ LastCall.ok)
  => /\ response.status = 200
     /\ DOMAIN response.content = {"raw_fields", "line_items"}
     /\ \A p \in Contributing(AnalysedDocs) :
          KeyOf(AnalysedDocs, p) \in DOMAIN response.content.raw_fields
     /\ Len(response.content.line_items) = Cardinality(WellFormedItems(AnalysedDocs))

AnalyzeCalls == {i \in 1..Len(calls) : calls[i].op = "analyze"}

UploadCalls == {i \in 1..Len(calls) : calls[i].op = "upload"}

ReportedError ==
  /\ response.status \in {400, 415, 500}
  /\ DOMAIN response.content = {"error"}

\* C6: when the analysis call fails, the request ends with an error response
\* (not 200, no raw_fields, line_items or text_lines in the body), no call
\* follows the failed one, and no key is analysed twice.
C6_AnalysisFailureReported ==
  /\ \A i \in AnalyzeCalls :
       ~calls[i].ok =>
         /\ i = Len(calls)
         /\ pc = "done"
         /\ ~escaped
         /\ ReportedError
  /\ \A i \in AnalyzeCalls, j \in AnalyzeCalls : calls[i].key = calls[j].key => i = j

\* /process-ocr: the analysis of the second page has failed.
C6_Witness ==
  /\ endpoint = "ocr"
  /\ Len(calls) = 4
  /\ LastCall.op = "analyze" /\ ~LastCall.ok
  /\ LastCall.key \in store

SupportedHeaders == {"%PDF-", "FFD8FF", "89PNG", "II*", "MM*"}

\* the body is an object with file and filename, the file decodes, its type
\* is pdf, jpeg, png or tiff, and a PDF was rasterized
Validated(b) ==
  /\ b.json = "object" /\ b.has_file /\ b.has_filename
  /\ b.b64
  /\ b.header \in SupportedHeaders
  /\ b.header = "%PDF-" => b.raster.ok

\* C8: an object is uploaded only after the validation of the request
\* succeeded; the analysis engine is called only on the key the upload just
\* before it returned, which is in the store; a 400 or 415 of the validation
\* comes with no upload and no analysis call; after a failed upload no
\* analysis call is made for that page.
C8_PipelineOrder ==
  /\ calls # <<>> => Validated(body)
  /\ \A i \in AnalyzeCalls :
       /\ i > 1
       /\ calls[i - 1].op = "upload" /\ calls[i - 1].ok
       /\ calls[i - 1].key = calls[i].key
       /\ calls[i - 1].page = calls[i].page
       /\ calls[i].key \in store
  /\ (pc = "done" /\ ~Validated(body)) => calls = <<>> /\ store = {}
  /\ response.status = 415 => calls = <<>>
  /\ \A i \in UploadCalls :
       ~calls[i].ok =>
         /\ i = Len(calls)
         /\ calls[i].key \notin store
         /\ \A j \in AnalyzeCalls : calls[j].page # calls[i].page
  /\ store = {calls[i].key : i \in {u \in UploadCalls : calls[u].ok}}

\* /process-ocr: the first page was uploaded and analysed, the upload of the
\* second page has failed.
C8_Witness ==
  /\ endpoint = "ocr"
  /\ Len(calls) = 3
  /\ calls[2].op = "analyze" /\ calls[2].ok
  /\ calls[3].op = "upload" /\ ~calls[3].ok
  /\ response.status = 500

IsLine(block) == block.BlockType = "LINE"

\* the texts of the LINE blocks, in block order; "" for a block without Text
LineTexts(blocks) ==
  LET ls == SelectSeq(blocks, IsLine) IN
  [i \in 1..Len(ls) |-> IF ls[i].Text.k = "text" THEN ls[i].Text.t ELSE <<>>]

\* the lines of the pages 1..n, the result of page k being that of call 2k
RECURSIVE LinesOfPages(_)
LinesOfPages(n) ==
  IF n = 0 THEN <<>>
  ELSE LinesOfPages(n - 1) \o LineTexts(calls[2 * n].result.Blocks)

\* C9: /process-ocr returns 200 only if every page was uploaded and analysed
\* with success, and then text_lines is the texts of the LINE blocks, in page
\* order and in block order; when the upload or the analysis of a page fails,
\* the response is an error without lines, no later page is uploaded or
\* analysed, and the objects uploaded so far remain in the store.
C9_OcrAllOrNothing ==
  (pc = "done" /\ endpoint = "ocr") =>
    /\ response.status = 200 =>
         /\ Len(calls) = 2 * Len(pages)
         /\ \A i \in 1..Len(calls) :
              /\ calls[i].ok
              /\ calls[i].op = (IF i % 2 = 1 THEN "upload" ELSE "analyze")
              /\ calls[i].page = (i - 1) \div 2
         /\ DOMAIN response.content = {"text_lines"}
         /\ response.content.text_lines = LinesOfPages(Len(pages))
    /\ \A i \in 1..Len(calls) :
         ~calls[i].ok =>
           /\ ReportedError
           /\ i = Len(calls)
           /\ \A j \in 1..Len(calls) : calls[j].page <= calls[i].page
    /\ \A i \in UploadCalls : calls[i].ok => calls[i].key \in store

\* /process-ocr has returned 200 for two pages, with lines of both, one of
\* them of a block without Text.
C9_Witness ==
  /\ pc = "done" /\ endpoint = "ocr" /\ response.status = 200
  /\ Len(pages) = 2
  /\ LineTexts(calls[2].result.Blocks) # <<>>
  /\ LineTexts(calls[4].result.Blocks) # <<>>
  /\ \E b \in 1..Len(calls[4].result.Blocks) :
       IsLine(calls[4].result.Blocks[b]) /\ calls[4].result.Blocks[b].Text.k = "absent"
  /\ Len(calls[2].result.Blocks) > Len(LineTexts(calls[2].result.Blocks))

\* the flattening of the analysis response of call i raises
FlatteningRaises(i) ==
  IF endpoint = "receipt"
  THEN LET docs == calls[i].result.ExpenseDocuments IN
       \/ \E p \in SummaryPositions(docs) : LacksText(SummaryAt(docs, p))
       \/ \E p \in ItemPositions(docs) :
            \E j \in 1..Len(ItemAt(docs, p).LineItemExpenseFields) :
              LacksText(ItemAt(docs, p).LineItemExpenseFields[j])
  ELSE calls[i].result.null

\* every step of the pipeline succeeded
AllStepsSucceeded ==
  /\ Validated(body)
  /\ body.prefix # "data_no_comma"
  /\ Len(calls) = 2 * (IF endpoint = "receipt" THEN 1 ELSE Len(pages))
  /\ \A i \in 1..Len(calls) : calls[i].ok
  /\ \A i \in AnalyzeCalls : ~FlatteningRaises(i)

\* C10: each request ends with one JSON response, of status 200, 400, 415 or
\* 500; no exception leaves the handler; the handler can always go on until
\* it has responded; 200 is returned only when every step succeeded.
C10_TotalResponse ==
  /\ ~escaped
  /\ pc # "done" => response = NoResponse /\ ENABLED Next
  /\ pc = "done" =>
       /\ response.status \in {200, 400, 415, 500}
       /\ ~ENABLED Next
       /\ response.status = 200 => AllStepsSucceeded

\* /process-ocr has answered 500 to an exception raised after the second
\* page was uploaded and analysed.
C10_Witness ==
  /\ pc = "done" /\ endpoint = "ocr"
  /\ Len(calls) = 4 /\ LastCall.ok
  /\ response.status = 500

====
